---- MODULE Spec2Model ----
(***************************************************************************)
(* Model of the ingestion pipeline of VisualRag                            *)
(* (backend/src/pipeline/ingestionPipeline.ts, progressEmitter.ts).        *)
(*                                                                         *)
(* The JavaScript event loop runs one callback at a time, so an action of  *)
(* this model is the code that runs between two awaits: an action starts   *)
(* when a pending external call (PDF parsing, embedding request, database  *)
(* write) of a task resolves or rejects, or when createTask is called, and *)
(* runs up to the next await.                                              *)
(***************************************************************************)
EXTENDS Integers, Sequences, FiniteSets, TLC

\* ---------------------------------------------------------------- bounds
MaxTasks == 2      \* createTask calls in one behaviour of Spec
MaxQueued == 3     \* createTask calls in one behaviour of QueueSpec
MaxPages == 2      \* pages of an uploaded PDF
MaxRegions == 1    \* regions (text lines) on every page
MaxFaults == 1     \* external calls that throw or answer without a result in one behaviour
MaxLongPages == 4  \* pages of the long PDF of PageSpec
MaxRooms == 1      \* task rooms the client socket may join in SubscriberSpec
MaxSearchPages == 2  \* stored text pages of the document a search is run on
MaxRegionList == 5   \* regions of the page pickRegionIdsForText is applied to
MaxChunks == 2       \* chunks the chat model streams for one answer
MaxTokens == 3       \* text items of the page the two PDF readers are applied to
MaxChunkCount == 2   \* chunks of the upload (totalChunks)
MaxRequests == 3     \* /upload/chunk and /upload/complete requests of one run

VARIABLES
  tasks,      \* IngestionPipeline.tasks: task id -> IngestionTask (ids are 1..Len)
  queue,      \* IngestionPipeline.queue: ids of the tasks waiting
  running,    \* IngestionPipeline.running
  frames,     \* per task: where its runNext/runTask invocation is suspended
  events,     \* per task room: the progress events published, in order
  db,         \* rows written through prisma
  thrown,     \* per task: the exceptions its external calls raised
  escaped,    \* a rejected runNext promise was left unhandled
  stageLog,   \* per task: the values its stage field has taken, in order
  faults,     \* external calls that threw or answered without a result, so far
  apiKey,     \* process.env.OPENAI_API_KEY is set
  imageEndpoint,  \* process.env.IMAGE_EMBEDDING_ENDPOINT is set
  joined,     \* the task rooms the client socket has joined
  inbox,      \* events sent to the client socket that its handler has not run for yet
  search,     \* the semanticSearch call in progress: its arguments, locals and outcome
  calc,       \* the application of a pure function: its arguments and its result
  upload      \* a chunked upload: its files on disk and the requests in flight

vars ==
  <<tasks, queue, running, frames, events, db, thrown, escaped, stageLog, faults,
    apiKey, imageEndpoint, joined, inbox, search, calc, upload>>

\* ------------------------------------------------------------- constants
NoMessage == ""
None == <<>>                 \* an undefined optional field
Some(v) == <<v>>             \* a defined optional field

\* the stages list with layout analysis listed before text extraction
stagesSwapped ==
  << [stage |-> "layout_analysis", handler |-> "layoutAnalysis"],
     [stage |-> "extracting_text", handler |-> "extractText"],
     [stage |-> "generating_text_embeddings", handler |-> "generateTextEmbeddings"],
     [stage |-> "writing_database", handler |-> "writeDatabase"] >>

\* the stages list of runTask
stages ==
  << [stage |-> "extracting_text", handler |-> "extractText"],
     [stage |-> "layout_analysis", handler |-> "layoutAnalysis"],
     [stage |-> "generating_text_embeddings", handler |-> "generateTextEmbeddings"],
     [stage |-> "writing_database", handler |-> "writeDatabase"] >>

\* type IngestionStage
IngestionStage ==
  { "queued", "extracting_text", "layout_analysis", "generating_text_embeddings",
    "generating_image_embeddings", "writing_database", "completed", "failed" }

\* the message of the exception an external call of a stage raises
ErrorMessage(handler) == handler \o "_error"

\* the files createTask is called with: a PDF without pages and a PDF of MaxPages
\* pages, MaxRegions text lines on each
Files == { [pages |-> n, regions |-> MaxRegions] : n \in {0, MaxPages} }

\* the file of QueueSpec: a PDF of one page with one text line
OnePage == [pages |-> 1, regions |-> 1]

\* ------------------------------------------------- the synchronous state
\* The operators below transform a record of the mutable state, so that the
\* calls one callback makes compose as in the code.
State ==
  [ tasks |-> tasks, queue |-> queue, running |-> running, frames |-> frames,
    events |-> events, db |-> db, thrown |-> thrown, escaped |-> escaped,
    stageLog |-> stageLog, faults |-> faults, joined |-> joined, inbox |-> inbox ]

CommitState(s) ==
  /\ tasks' = s.tasks
  /\ queue' = s.queue
  /\ running' = s.running
  /\ frames' = s.frames
  /\ events' = s.events
  /\ db' = s.db
  /\ thrown' = s.thrown
  /\ escaped' = s.escaped
  /\ stageLog' = s.stageLog
  /\ faults' = s.faults
  /\ joined' = s.joined
  /\ inbox' = s.inbox

Commit(s) ==
  /\ CommitState(s)
  /\ UNCHANGED <<apiKey, imageEndpoint, search, calc, upload>>

\* an emit that throws when no socket is in the task's room
emitNeedsSubscriber(s, t, stage, num, den, message) ==
  IF t \in s.joined
    THEN [s EXCEPT !.events[t] =
            Append(@, [stage |-> stage, num |-> num, den |-> den, message |-> message]),
                   !.inbox = @ + 1]
    ELSE [s EXCEPT !.escaped = TRUE]

\* ProgressEmitter.emit: io.to(room).emit sends the event to the sockets that
\* are in the task's room now and returns; nothing is awaited or acknowledged
emit(s, t, stage, num, den, message) ==
  [s EXCEPT !.events[t] =
     Append(@, [stage |-> stage, num |-> num, den |-> den, message |-> message]),
            !.inbox = IF t \in s.joined THEN @ + 1 ELSE @]

\* ProgressEmitter.updateStage
updateStage(s, t, stage, progress) == emit(s, t, stage, progress, 1, NoMessage)

\* IngestionPipeline.updateTaskStage
updateTaskStage(s, t, stage, progress) ==
  updateStage([s EXCEPT !.tasks[t].stage = stage, !.tasks[t].progress = progress,
                        !.stageLog[t] = Append(@, stage)],
              t, stage, progress)

\* IngestionPipeline.stageBaseProgress
stageBaseProgress(stage) ==
  CASE stage = "extracting_text" -> 5
    [] stage = "layout_analysis" -> 25
    [] stage = "generating_text_embeddings" -> 45
    [] stage = "generating_image_embeddings" -> 65
    [] stage = "writing_database" -> 85
    [] stage = "completed" -> 100
    [] OTHER -> 0

\* (i / stages.length) * 100 for the 0-based loop index i-1
LoopProgress(i) == ((i - 1) * 100) \div Len(stages)

\* a suspended invocation: pc is the await it waits at, i the loop index of
\* runTask (1-based), index, embeddings and writes the locals of the handler
NewFrame(pc, i) ==
  [pc |-> pc, i |-> i, index |-> 0, embeddings |-> <<>>, writes |-> 0,
   rejected |-> FALSE]

\* runTask loop body for stage i, up to the await of its handler
enterStage(s, t, i) ==
  LET s1 == updateTaskStage(s, t, stages[i].stage, LoopProgress(i))
  IN  [s1 EXCEPT !.frames[t] = NewFrame(stages[i].handler, i)]

\* runTask: the handler of stage i has returned
afterHandler(s, t, i) ==
  IF i < Len(stages)
    THEN enterStage(s, t, i + 1)
    ELSE LET s1 == updateTaskStage(s, t, "completed", 100)
         IN  [s1 EXCEPT !.frames[t] = NewFrame("runNextFinally", 0)]

\* runTask without its catch block: the exception rejects runTask's promise
catchStageRethrow(s, t, message) ==
  [s EXCEPT !.frames[t] = [NewFrame("runNextFinally", 0) EXCEPT !.rejected = TRUE]]

\* the catch block without the assignment to task.error
catchStageNoMessage(s, t, message) ==
  LET s2 == updateTaskStage(s, t, "failed", s.tasks[t].progress)
  IN  [s2 EXCEPT !.frames[t] = NewFrame("runNextFinally", 0)]

\* the catch block publishing the base progress of the stage "failed"
catchStageBaseProgress(s, t, message) ==
  LET s1 == [s EXCEPT !.tasks[t].error = Some(message)]
      s2 == updateTaskStage(s1, t, "failed", stageBaseProgress("failed"))
  IN  [s2 EXCEPT !.frames[t] = NewFrame("runNextFinally", 0)]

\* runTask: the catch block, for an exception a handler let escape
catchStage(s, t, message) ==
  LET s1 == [s EXCEPT !.tasks[t].error = Some(message)]
      s2 == updateTaskStage(s1, t, "failed", s1.tasks[t].progress)
  IN  [s2 EXCEPT !.frames[t] = NewFrame("runNextFinally", 0)]

\* runNext without the check of the running flag
runNextNoGuard(s) ==
  IF s.queue = <<>> THEN s
  ELSE LET t == Head(s.queue)
       IN  enterStage([s EXCEPT !.queue = Tail(@), !.running = TRUE], t, 1)

\* runNext taking the newest task of the queue (pop instead of shift)
runNextLifo(s) ==
  IF s.running THEN s
  ELSE IF s.queue = <<>> THEN s
  ELSE LET t == s.queue[Len(s.queue)]
       IN  enterStage([s EXCEPT !.queue = SubSeq(@, 1, Len(@) - 1),
                                !.running = TRUE], t, 1)

\* runNext reading the head of the queue without removing it
runNextPeek(s) ==
  IF s.running THEN s
  ELSE IF s.queue = <<>> THEN s
  ELSE LET t == Head(s.queue)
       IN  enterStage([s EXCEPT !.running = TRUE], t, 1)

\* runNext, up to the first await inside runTask
runNext(s) ==
  IF s.running THEN s
  ELSE IF s.queue = <<>> THEN s
  ELSE LET t == Head(s.queue)
       IN  enterStage([s EXCEPT !.queue = Tail(@), !.running = TRUE], t, 1)

\* enqueue
enqueue(s, t) == runNext([s EXCEPT !.queue = Append(@, t)])

\* createTask
createTask(s, file) ==
  LET t == Len(s.tasks) + 1
      task == [ stage |-> "queued", progress |-> 0, error |-> None,
                sourcePath |-> file,
                meta |-> [textPages |-> None, layoutPages |-> None,
                          textEmbeddings |-> None, imageEmbeddings |-> None] ]
      s1 == [s EXCEPT !.tasks = Append(@, task),
                      !.frames = Append(@, NewFrame("queued", 0)),
                      !.events = Append(@, <<>>),
                      !.stageLog = Append(@, <<task.stage>>),
                      !.thrown = Append(@, <<>>)]
      s2 == enqueue(s1, t)
  IN  emit(s2, t, s2.tasks[t].stage, s2.tasks[t].progress, 1, "queued")

\* getTask looking the id up among the tasks that are not finished
getTaskUnfinished(s, taskId) ==
  IF taskId \in 1..Len(s.tasks) /\ s.tasks[taskId].stage \notin {"completed", "failed"}
    THEN Some(s.tasks[taskId])
    ELSE None

\* getTask: this.tasks.get(taskId), undefined for an id that is not a key
getTask(s, taskId) ==
  IF taskId \in 1..Len(s.tasks) THEN Some(s.tasks[taskId]) ELSE None

\* the finally block without the call of runNext
runNextFinallyNoRestart(s, t) ==
  [s EXCEPT !.running = FALSE,
            !.frames[t].pc = "done",
            !.escaped = @ \/ s.frames[t].rejected]

\* the finally block without the reset of the running flag
runNextFinallyStillRunning(s, t) ==
  LET s1 == [s EXCEPT !.frames[t].pc = "done",
                      !.escaped = @ \/ s.frames[t].rejected]
  IN  IF Len(s1.queue) > 0 THEN runNext(s1) ELSE s1

\* runNext: the finally block, run when runTask's promise has settled
runNextFinally(s, t) ==
  LET s1 == [s EXCEPT !.running = FALSE,
                      !.frames[t].pc = "done",
                      !.escaped = @ \/ s.frames[t].rejected]
  IN  IF Len(s1.queue) > 0 THEN runNext(s1) ELSE s1

\* ------------------------------------------------------------ the stages
\* record that an external call of task t, made by handler h, threw
raise(s, t, h) ==
  [s EXCEPT !.thrown[t] = Append(@, [handler |-> h, message |-> ErrorMessage(h)]),
            !.faults = @ + 1]

\* textPages is set, with pages or without
HasTextPagesField(task) == task.meta.textPages # None

HasTextPages(task) ==
  task.meta.textPages # None /\ Len(task.meta.textPages[1]) > 0

\* extractTextFromPdf: one TextPage per page of the file
extractTextFromPdf(file) == [i \in 1..file.pages |-> [pageNumber |-> i]]

\* analyzePdfLayout: one LayoutPage per page, one region per text line
analyzePdfLayout(file) ==
  [i \in 1..file.pages |-> [pageNumber |-> i, regions |-> file.regions]]

\* extractText after the await
extractText(s, t) ==
  [s EXCEPT !.tasks[t].meta.textPages =
     Some(extractTextFromPdf(s.tasks[t].sourcePath))]

\* layoutAnalysis assigning a fresh metadata object instead of spreading the old
layoutAnalysisReplacesMeta(s, t) ==
  [s EXCEPT !.tasks[t].meta =
     [textPages |-> None,
      layoutPages |-> Some(analyzePdfLayout(s.tasks[t].sourcePath)),
      textEmbeddings |-> None, imageEmbeddings |-> None]]

\* layoutAnalysis after the await
layoutAnalysis(s, t) ==
  [s EXCEPT !.tasks[t].meta.layoutPages =
     Some(analyzePdfLayout(s.tasks[t].sourcePath))]

\* generateTextEmbeddings: the loop body after the await of one request
embedPage(s, t, vector) ==
  LET task == s.tasks[t]
      textPages == task.meta.textPages[1]
      total == Len(textPages)
      index == s.frames[t].index
      page == textPages[index + 1]
      s1 == [s EXCEPT !.frames[t].embeddings =
               Append(@, [pageNumber |-> page.pageNumber, embedding |-> vector]),
                      !.frames[t].index = index + 1,
                      !.faults = IF vector = "empty" THEN @ + 1 ELSE @]
      baseProgress == stageBaseProgress("generating_text_embeddings")
      \* baseProgress + ((index + 1) / total) * 15, as the fraction num / total
  IN  emit(s1, t, "generating_text_embeddings",
           baseProgress * total + (index + 1) * 15, total, NoMessage)

\* generateTextEmbeddings: after the loop
storeEmbeddings(s, t) ==
  [s EXCEPT !.tasks[t].meta.textEmbeddings = Some(s.frames[t].embeddings)]

\* generateTextEmbeddings without its try/catch: the exception reaches runTask
catchEmbeddingRethrow(s, t) ==
  catchStage(s, t, ErrorMessage("generateTextEmbeddings"))

\* the catch block recording the embeddings made before the exception
catchEmbeddingKeepsPartial(s, t) == afterHandler(storeEmbeddings(s, t), t, s.frames[t].i)

\* generateTextEmbeddings: the catch block (console.error, then return)
catchEmbedding(s, t) == afterHandler(s, t, s.frames[t].i)

\* writeDatabase: the rows it creates for task t, in order
RegionRows(t, p, r) == [k \in 1..r |-> [doc |-> t, kind |-> "visualRegion", page |-> p, region |-> k]]

HasEmbedding(task, p) ==
  /\ task.meta.textEmbeddings # None
  /\ \E k \in 1..Len(task.meta.textEmbeddings[1]) :
       /\ task.meta.textEmbeddings[1][k].pageNumber = p
       /\ \A j \in 1..(k - 1) : task.meta.textEmbeddings[1][j].pageNumber # p
       /\ task.meta.textEmbeddings[1][k].embedding = "vector"

HasLayout(task, p) ==
  /\ task.meta.layoutPages # None
  /\ \E k \in 1..Len(task.meta.layoutPages[1]) :
       task.meta.layoutPages[1][k].pageNumber = p

LayoutRegions(task, p) ==
  LET lp == task.meta.layoutPages[1]
      k == CHOOSE k \in 1..Len(lp) :
             /\ lp[k].pageNumber = p
             /\ \A j \in 1..(k - 1) : lp[j].pageNumber # p
  IN  lp[k].regions

PageRows(t, task, p) ==
  << [doc |-> t, kind |-> "page", page |-> p, region |-> 0],
     [doc |-> t, kind |-> "textPage", page |-> p, region |-> 0] >>
  \o (IF HasEmbedding(task, p)
        THEN << [doc |-> t, kind |-> "textEmbedding", page |-> p, region |-> 0] >>
        ELSE <<>>)
  \o (IF HasLayout(task, p) THEN RegionRows(t, p, LayoutRegions(task, p)) ELSE <<>>)

RECURSIVE PagesRows(_, _, _)
PagesRows(t, task, n) ==
  IF n = 0 THEN <<>>
  ELSE PagesRows(t, task, n - 1) \o PageRows(t, task, task.meta.textPages[1][n].pageNumber)

WriteRows(t, task) ==
  << [doc |-> t, kind |-> "document", page |-> 0, region |-> 0] >>
  \o PagesRows(t, task, Len(task.meta.textPages[1]))

\* writeDatabase: one prisma call has resolved
writeRow(s, t) ==
  LET row == WriteRows(t, s.tasks[t])[s.frames[t].writes + 1]
  IN  [s EXCEPT !.db = @ \cup {row}, !.frames[t].writes = @ + 1]

\* ----------------------------------------------------------- the search
\* Texts are sequences of characters. The stored pages and the queries are
\* drawn from small sets in which a query is found on some pages, on every
\* page or on none.
window == 60
DefaultLimit == 10

\* a page whose first occurrence of "a", letter case ignored, lies more than
\* the snippet window before its first occurrence of "a" itself
LongText == <<"A">> \o [i \in 1..(window + 1) |-> "b"] \o <<"a">>

Texts == { <<"a", "b">>, <<"b", "\n", "A">>, <<"b">>, LongText }
Queries == { <<"a">>, <<"b">>, <<"a", "b">>, <<"c">> }

\* the stored documents: pages 1..n, each with its text and with or without a
\* TextEmbedding row
StoredPage == [text : Texts, embedded : BOOLEAN]
ShortDocuments == UNION { [1..n -> StoredPage] : n \in 0..MaxSearchPages }

\* a document of more pages than the default limit, every page alike
LongDocument(embedded) ==
  [p \in 1..(DefaultLimit + 1) |-> [text |-> <<"a", "b">>, embedded |-> embedded]]

Documents == ShortDocuments \cup { LongDocument(e) : e \in BOOLEAN }

\* the limit argument: absent, or a number
Limits == {None} \cup { Some(k) : k \in 1..MaxSearchPages }

\* limit ?? 10
effectiveLimit(limit) == IF limit = None THEN DefaultLimit ELSE limit[1]

\* text contains query as a substring, characters compared as they are
Contains(text, query) ==
  \E i \in 1..(Len(text) - Len(query) + 1) :
    SubSeq(text, i, i + Len(query) - 1) = query

\* the first k elements of a sequence
Take(seq, k) == SubSeq(seq, 1, IF k < Len(seq) THEN k ELSE Len(seq))

\* the TextPage rows of a document, by ascending page number
TextPageRows(doc) == [p \in DOMAIN doc |-> [pageNumber |-> p, text |-> doc[p].text]]

\* prisma.textPage.findMany({ where: { text: { contains: query } },
\*   orderBy: { pageNumber: "asc" }, take })
findManyTextPages(doc, query, take) ==
  Take(SelectSeq(TextPageRows(doc), LAMBDA row : Contains(row.text, query)), take)

\* the answers the similarity query can give: the rows of the pages that have
\* an embedding, in the order of their similarity to the query, cut at the
\* limit. The order is any order for up to MaxSearchPages pages, and by
\* ascending or by descending page number for more.
VectorRows(doc, take) ==
  LET embedded == { p \in DOMAIN doc : doc[p].embedded }
      n == Cardinality(embedded)
      k == IF take < n THEN take ELSE n
      orders ==
        IF n <= MaxSearchPages
          THEN { f \in [1..k -> embedded] : \A i, j \in 1..k : i # j => f[i] # f[j] }
          ELSE { [i \in 1..k |-> i], [i \in 1..k |-> n + 1 - i] }
  IN  { [i \in 1..k |-> [pageNumber |-> r[i], text |-> doc[r[i]].text]] :
          r \in orders }

\* ---------------------------------------------------- text and regions
\* String.prototype.toLowerCase on the characters of the texts
Lower(c) == IF c = "A" THEN "a" ELSE IF c = "B" THEN "b" ELSE c
toLowerCase(text) == [i \in 1..Len(text) |-> Lower(text[i])]

\* String.prototype.indexOf: the 0-based offset of the first occurrence, or -1
indexOf(text, query) ==
  LET at == { i \in 1..(Len(text) - Len(query) + 1) :
                SubSeq(text, i, i + Len(query) - 1) = query }
  IN  IF at = {} THEN -1
      ELSE (CHOOSE i \in at : \A j \in at : i <= j) - 1

\* slice(start, end) of a string or an array, for 0 <= start: 0-based, end
\* excluded, cut at the length
slice(seq, start, end) ==
  LET last == IF end < Len(seq) THEN end ELSE Len(seq)
  IN  IF start >= last THEN <<>> ELSE SubSeq(seq, start + 1, last)

\* before.split("\n").length - 1: the newlines in a string
Newlines(text) == Cardinality({ i \in 1..Len(text) : text[i] = "\n" })

\* the identity of the region LayoutAnalyzer made for a line of a page
RegionId(pageNumber, line) == [page |-> pageNumber, line |-> line]

\* what reading an array at an index it does not have gives
Undefined == [page |-> 0, line |-> 0]

\* array[index], 0-based
ElementAt(array, index) ==
  IF index \in 0..(Len(array) - 1) THEN array[index + 1] ELSE Undefined

\* regionsByPage.get(pageNumber) ?? []
RegionsOfPage(regionsByPage, pageNumber) ==
  IF pageNumber \in DOMAIN regionsByPage THEN regionsByPage[pageNumber] ELSE <<>>

\* pickRegionIdsForText taking the first region when the query is absent
pickRegionIdsFirst(pageNumber, text, query, regionsByPage) ==
  LET regionIds == RegionsOfPage(regionsByPage, pageNumber)
      idx == indexOf(toLowerCase(text), toLowerCase(query))
      lineIndex == Newlines(slice(text, 0, idx))
      startIndex == IF lineIndex - 1 < 0 THEN 0 ELSE lineIndex - 1
      end1 == IF lineIndex + 1 >= Len(regionIds)
                THEN Len(regionIds) - 1 ELSE lineIndex + 1
      endIndex == IF end1 < startIndex THEN startIndex ELSE end1
      selected == slice(regionIds, startIndex, endIndex + 1)
  IN  IF Len(regionIds) = 0 THEN <<>>
      ELSE IF idx = -1 THEN << ElementAt(regionIds, 0) >>
      ELSE IF Len(selected) > 0 THEN selected
      ELSE << ElementAt(regionIds, startIndex) >>

\* pickRegionIdsForText
pickRegionIdsForText(pageNumber, text, query, regionsByPage) ==
  LET regionIds == RegionsOfPage(regionsByPage, pageNumber)
      idx == indexOf(toLowerCase(text), toLowerCase(query))
      before == slice(text, 0, idx)
      lineIndex == Newlines(before)
      windowLines == 1
      startIndex == IF lineIndex - windowLines < 0 THEN 0 ELSE lineIndex - windowLines
      end1 == IF lineIndex + windowLines >= Len(regionIds)
                THEN Len(regionIds) - 1 ELSE lineIndex + windowLines
      endIndex == IF end1 < startIndex THEN startIndex ELSE end1
      selected == slice(regionIds, startIndex, endIndex + 1)
  IN  IF Len(regionIds) = 0 THEN <<>>
      ELSE IF idx = -1 THEN << ElementAt(regionIds, Len(regionIds) \div 2) >>
      ELSE IF lineIndex < 0 THEN << ElementAt(regionIds, 0) >>
      ELSE IF Len(selected) > 0 THEN selected
      ELSE << ElementAt(regionIds, startIndex) >>

\* no pure function is being applied
IdleCalc == [fn |-> "none"]

\* no call in progress
IdleSearch ==
  [ pc |-> "idle", doc |-> <<>>, query |-> <<>>, limit |-> None, matches |-> <<>>,
    path |-> "none", requests |-> 0, response |-> "none", results |-> <<>>,
    error |-> NoMessage, endpoint |-> "none", reply |-> None,
    closed |-> FALSE, sent |-> <<>>, chunks |-> 0, ended |-> FALSE ]

\* semanticSearch returns results / rejects with an error
searchReturns(sr, results) == [sr EXCEPT !.pc = "returned", !.results = results]
searchThrows(sr, message) == [sr EXCEPT !.pc = "raised", !.error = message]

\* buildResultsFromTextPages, up to its await: nothing to build for no match
buildResultsFromTextPages(sr, matches, path) ==
  IF Len(matches) = 0
    THEN searchReturns([sr EXCEPT !.path = path], <<>>)
    ELSE [sr EXCEPT !.pc = "regions", !.matches = matches, !.path = path]

\* the character U+2026
Ellipsis == "..."

\* the snippet cut around the first occurrence of the query as it is written
snippetOfExactCase(text, query) ==
  LET idx == indexOf(text, query)
      start == IF idx - window > 0 THEN idx - window ELSE 0
      end == IF idx + Len(query) + window < Len(text)
               THEN idx + Len(query) + window ELSE Len(text)
  IN  IF idx = -1 THEN slice(text, 0, window * 2)
      ELSE (IF start > 0 THEN << Ellipsis >> ELSE <<>>)
             \o slice(text, start, end)
             \o (IF end < Len(text) THEN << Ellipsis >> ELSE <<>>)

\* the snippet of a result: the text around the first occurrence of the
\* query, letter case ignored, or the head of the text
snippetOf(text, query) ==
  LET idx == indexOf(toLowerCase(text), toLowerCase(query))
      start == IF idx - window > 0 THEN idx - window ELSE 0
      end == IF idx + Len(query) + window < Len(text)
               THEN idx + Len(query) + window ELSE Len(text)
  IN  IF idx = -1 THEN slice(text, 0, window * 2)
      ELSE (IF start > 0 THEN << Ellipsis >> ELSE <<>>)
             \o slice(text, start, end)
             \o (IF end < Len(text) THEN << Ellipsis >> ELSE <<>>)

\* the lines of a stored text, none of them blank
LineCount(text) == Newlines(text) + 1

\* visualRegion.findMany({ where: { pageNumber: { in: pageNumbers } },
\*   orderBy: [{ pageNumber: "asc" }, { y0: "asc" }] }) grouped by page. A page
\* has one region per line; y0 is the lower edge of the line in PDF
\* coordinates, which grow upwards, so the lowest line comes first.
regionsByPageOf(doc, pageNumbers) ==
  [p \in pageNumbers |->
     [k \in 1..LineCount(doc[p].text) |->
        RegionId(p, LineCount(doc[p].text) + 1 - k)]]

\* the result items, one per match in the order of the matches
resultItems(matches, query, regionsByPage) ==
  [i \in 1..Len(matches) |->
     [pageNumber |-> matches[i].pageNumber,
      snippet |-> snippetOf(matches[i].text, query),
      regionIds |-> pickRegionIdsForText(matches[i].pageNumber, matches[i].text,
                                         query, regionsByPage)]]

\* ------------------------------------------------------------ the upload
\* a request slot: the handler's position, its parameters and its locals
IdleRequest ==
  [ kind |-> "none", pc |-> "idle", index |-> 0, data |-> "none", metadata |-> None,
    read |-> <<>>, reply |-> "none" ]

\* no upload: no metadata file, no chunk file, an empty upload index; acked
\* is the set of the chunk indices answered with ok
IdleUpload ==
  [ metadata |-> None, chunks |-> [i \in 0..(MaxChunkCount - 1) |-> "none"],
    index |-> {}, requests |-> [r \in 1..MaxRequests |-> IdleRequest],
    acked |-> {}, initialized |-> FALSE ]

\* receivedChunks.includes(index)
includes(receivedChunks, index) ==
  \E k \in 1..Len(receivedChunks) : receivedChunks[k] = index

\* receivedChunks.push(index); receivedChunks.sort((a, b) => a - b)
pushSorted(receivedChunks, index) ==
  LET k == Cardinality({ i \in 1..Len(receivedChunks) : receivedChunks[i] <= index })
  IN  SubSeq(receivedChunks, 1, k) \o << index >>
        \o SubSeq(receivedChunks, k + 1, Len(receivedChunks))

\* the digest of the chunks read equals metadata.hash: every chunk holds the
\* bytes of the file the hash was declared for
digestMatches(read) == \A k \in 1..Len(read) : read[k] = "good"

\* the handler of a request ends with a reply; its locals are gone
replies(up, r, reply) ==
  [up EXCEPT !.requests[r] =
     [IdleRequest EXCEPT !.kind = up.requests[r].kind, !.pc = "done", !.reply = reply]]

\* ----------------------------------------------------------------- Init
Init ==
  /\ tasks = <<>>
  /\ queue = <<>>
  /\ running = FALSE
  /\ frames = <<>>
  /\ events = <<>>
  /\ db = {}
  /\ thrown = <<>>
  /\ escaped = FALSE
  /\ stageLog = <<>>
  /\ faults = 0
  /\ apiKey \in BOOLEAN
  /\ imageEndpoint \in BOOLEAN
  /\ joined = {}
  /\ inbox = 0
  /\ search = IdleSearch
  /\ calc = IdleCalc
  /\ upload = IdleUpload

Ids == 1..Len(tasks)
At(t, pc) == frames[t].pc = pc
CanThrow == faults < MaxFaults

\* -------------------------------------------------------------- actions
CreateTask ==
  /\ Len(tasks) < MaxTasks
  /\ \E file \in Files : Commit(createTask(State, file))

ExtractTextReturns ==
  \E t \in Ids :
    /\ At(t, "extractText")
    /\ Commit(afterHandler(extractText(State, t), t, frames[t].i))

ExtractTextThrows ==
  \E t \in Ids :
    /\ At(t, "extractText")
    /\ CanThrow
    /\ Commit(catchStage(raise(State, t, "extractText"), t, ErrorMessage("extractText")))

LayoutAnalysisSkips ==
  \E t \in Ids :
    /\ At(t, "layoutAnalysis")
    /\ ~HasTextPages(tasks[t])
    /\ Commit(afterHandler(State, t, frames[t].i))

LayoutAnalysisReturns ==
  \E t \in Ids :
    /\ At(t, "layoutAnalysis")
    /\ HasTextPages(tasks[t])
    /\ Commit(afterHandler(layoutAnalysis(State, t), t, frames[t].i))

LayoutAnalysisThrows ==
  \E t \in Ids :
    /\ At(t, "layoutAnalysis")
    /\ HasTextPages(tasks[t])
    /\ CanThrow
    /\ Commit(catchStage(raise(State, t, "layoutAnalysis"), t, ErrorMessage("layoutAnalysis")))

EmbeddingSkips ==
  \E t \in Ids :
    /\ At(t, "generateTextEmbeddings")
    /\ ~HasTextPages(tasks[t]) \/ ~apiKey
    /\ Commit(afterHandler(State, t, frames[t].i))

\* generateTextEmbeddings without the check of OPENAI_API_KEY
EmbeddingReturnsNoKeyCheck ==
  \E t \in Ids, vector \in {"vector", "empty"} :
    /\ At(t, "generateTextEmbeddings")
    /\ HasTextPages(tasks[t])
    /\ vector = "empty" => CanThrow
    /\ LET s1 == embedPage(State, t, vector)
       IN  IF s1.frames[t].index < Len(tasks[t].meta.textPages[1])
             THEN Commit(s1)
             ELSE Commit(afterHandler(storeEmbeddings(s1, t), t, frames[t].i))

EmbeddingReturns ==
  \E t \in Ids, vector \in {"vector", "empty"} :
    /\ At(t, "generateTextEmbeddings")
    /\ HasTextPages(tasks[t]) /\ apiKey
    /\ vector = "empty" => CanThrow
    /\ LET s1 == embedPage(State, t, vector)
       IN  IF s1.frames[t].index < Len(tasks[t].meta.textPages[1])
             THEN Commit(s1)
             ELSE Commit(afterHandler(storeEmbeddings(s1, t), t, frames[t].i))

EmbeddingThrows ==
  \E t \in Ids :
    /\ At(t, "generateTextEmbeddings")
    /\ HasTextPages(tasks[t]) /\ apiKey
    /\ CanThrow
    /\ Commit(catchEmbedding(raise(State, t, "generateTextEmbeddings"), t))

WriteDatabaseSkips ==
  \E t \in Ids :
    /\ At(t, "writeDatabase")
    /\ ~HasTextPages(tasks[t])
    /\ Commit(afterHandler(State, t, frames[t].i))

WriteDatabaseReturns ==
  \E t \in Ids :
    /\ At(t, "writeDatabase")
    /\ HasTextPages(tasks[t])
    /\ LET s1 == writeRow(State, t)
       IN  IF s1.frames[t].writes < Len(WriteRows(t, tasks[t]))
             THEN Commit(s1)
             ELSE Commit(afterHandler(s1, t, frames[t].i))

\* a failed write undoing the rows written for the document before it
WriteDatabaseThrowsRollsBack ==
  \E t \in Ids :
    /\ At(t, "writeDatabase")
    /\ HasTextPages(tasks[t])
    /\ CanThrow
    /\ LET s1 == [State EXCEPT !.db = { row \in @ : row.doc # t }]
       IN  Commit(catchStage(raise(s1, t, "writeDatabase"), t,
                             ErrorMessage("writeDatabase")))

WriteDatabaseThrows ==
  \E t \in Ids :
    /\ At(t, "writeDatabase")
    /\ HasTextPages(tasks[t])
    /\ CanThrow
    /\ Commit(catchStage(raise(State, t, "writeDatabase"), t, ErrorMessage("writeDatabase")))

RunNextFinally ==
  \E t \in Ids :
    /\ At(t, "runNextFinally")
    /\ Commit(runNextFinally(State, t))

Step ==
  \/ ExtractTextReturns
  \/ ExtractTextThrows
  \/ LayoutAnalysisSkips
  \/ LayoutAnalysisReturns
  \/ LayoutAnalysisThrows
  \/ EmbeddingSkips
  \/ EmbeddingReturns
  \/ EmbeddingThrows
  \/ WriteDatabaseSkips
  \/ WriteDatabaseReturns
  \/ WriteDatabaseThrows
  \/ RunNextFinally

Next == CreateTask \/ Step

\* at most MaxTasks tasks, documents without pages or of MaxPages pages
Spec == Init /\ [][Next]_vars

\* The queue under load: up to MaxQueued tasks, each a one-page document.
CreateQueuedTask ==
  /\ Len(tasks) < MaxQueued
  /\ Commit(createTask(State, OnePage))

QueueStep ==
  \/ ExtractTextReturns
  \/ ExtractTextThrows
  \/ LayoutAnalysisReturns
  \/ LayoutAnalysisThrows
  \/ EmbeddingSkips
  \/ EmbeddingReturns
  \/ EmbeddingThrows
  \/ WriteDatabaseReturns
  \/ WriteDatabaseThrows
  \/ RunNextFinally

QueueNext == CreateQueuedTask \/ QueueStep

QueueSpec == Init /\ [][QueueNext]_vars

\* IMAGE_EMBEDDING_ENDPOINT is read by generateImageEmbeddings alone, which
\* no step of the driver calls: the runs with and without it are the same, and
\* LiveSpec takes those without it.
LiveInit == Init /\ ~imageEndpoint

\* every pending external call eventually returns or throws, and the event
\* loop eventually runs every continuation that is ready
LiveSpec == LiveInit /\ [][QueueNext]_vars /\ WF_vars(QueueStep)

\* A long document: the per-page progress of the embedding stage is
\* 45 + 15 * k / total, which depends on the number of pages.
LongFile == [pages |-> MaxLongPages, regions |-> MaxRegions]

CreateLongTask ==
  /\ Len(tasks) < MaxTasks
  /\ Commit(createTask(State, LongFile))

PageNext == CreateLongTask \/ QueueStep

PageSpec == Init /\ [][PageNext]_vars

\* The client: a socket that joins task rooms and handles the events it is
\* sent, at its own pace.
pipelineVars ==
  <<tasks, queue, running, frames, events, db, thrown, escaped, stageLog, faults,
    apiKey, imageEndpoint>>

\* the "join-task" handler: ProgressEmitter.joinRoom
JoinTask ==
  \E taskId \in 1..MaxRooms :
    /\ taskId \notin joined
    /\ joined' = joined \cup {taskId}
    /\ UNCHANGED <<pipelineVars, inbox, search, calc, upload>>

\* the client's "ingestion:progress" handler runs for one event
Consume ==
  /\ inbox > 0
  /\ inbox' = inbox - 1
  /\ UNCHANGED <<pipelineVars, joined, search, calc, upload>>

CreateWatchedTask ==
  /\ Len(tasks) < MaxTasks
  /\ Commit(createTask(State, OnePage))

SubscriberNext == JoinTask \/ Consume \/ CreateWatchedTask \/ QueueStep

SubscriberSpec == Init /\ [][SubscriberNext]_vars

\* ------------------------------------------------------ semanticSearch
\* One call of semanticSearch on a stored document; an action is the code
\* between two of its awaits.
searchUnchanged == UNCHANGED <<pipelineVars, joined, inbox, calc, upload>>

SemanticSearchCalled ==
  /\ search.pc = "idle"
  /\ \E doc \in Documents, query \in Queries, limit \in Limits :
       search' = [IdleSearch EXCEPT !.pc = "keywordMatches", !.doc = doc,
                                   !.query = query, !.limit = limit]
  /\ searchUnchanged

\* the first findMany answers, the vector path is tried before its result is
\* looked at
KeywordMatchesReturnEmbedsFirst ==
  /\ search.pc = "keywordMatches"
  /\ search' =
       IF ~apiKey
         THEN searchThrows(search, "embedding_model_not_configured")
         ELSE [search EXCEPT !.pc = "embedding", !.requests = @ + 1]
  /\ searchUnchanged

\* the first findMany answers: literal hits are used directly, otherwise the
\* query embedding is requested
KeywordMatchesReturn ==
  /\ search.pc = "keywordMatches"
  /\ LET keywordMatches ==
           findManyTextPages(search.doc, search.query, effectiveLimit(search.limit))
     IN  search' =
           IF Len(keywordMatches) > 0
             THEN buildResultsFromTextPages(search, keywordMatches, "literal")
           ELSE IF ~apiKey
             THEN searchThrows(search, "embedding_model_not_configured")
           ELSE [search EXCEPT !.pc = "embedding", !.requests = @ + 1]
  /\ searchUnchanged

\* openai.embeddings.create answers, with a vector or without one
QueryEmbeddingReturns ==
  /\ search.pc = "embedding"
  /\ \E vector \in {"vector", "empty"} :
       search' =
         IF vector = "empty"
           THEN [search EXCEPT !.pc = "fallbackMatches", !.response = "empty"]
           ELSE [search EXCEPT !.pc = "vectorRows", !.response = "vector"]
  /\ searchUnchanged

\* openai.embeddings.create throws: nothing in semanticSearch catches it
QueryEmbeddingThrows ==
  /\ search.pc = "embedding"
  /\ search' = searchThrows([search EXCEPT !.response = "threw"], "embedding_error")
  /\ searchUnchanged

\* the similarity query answers
VectorRowsReturn ==
  /\ search.pc = "vectorRows"
  /\ \E rows \in VectorRows(search.doc, effectiveLimit(search.limit)) :
       search' =
         IF Len(rows) = 0
           THEN [search EXCEPT !.pc = "fallbackMatches"]
           ELSE [search EXCEPT !.pc = "regions", !.matches = rows, !.path = "vector"]
  /\ searchUnchanged

\* the second findMany answers (no vector, or no row)
FallbackMatchesReturn ==
  /\ search.pc = "fallbackMatches"
  /\ search' =
       buildResultsFromTextPages(
         search,
         findManyTextPages(search.doc, search.query, effectiveLimit(search.limit)),
         "fallback")
  /\ searchUnchanged

\* visualRegion.findMany answers: the results are built and returned
RegionsReturn ==
  /\ search.pc = "regions"
  /\ LET pageNumbers == { search.matches[i].pageNumber : i \in 1..Len(search.matches) }
     IN  search' = searchReturns(search,
                     resultItems(search.matches, search.query,
                                 regionsByPageOf(search.doc, pageNumbers)))
  /\ searchUnchanged

\* a database query of the search throws: nothing in semanticSearch catches it
SearchQueryThrows ==
  /\ search.pc \in {"keywordMatches", "vectorRows", "fallbackMatches", "regions"}
  /\ search' = searchThrows(search, "persistence_error")
  /\ searchUnchanged

SearchNext ==
  \/ SemanticSearchCalled
  \/ KeywordMatchesReturn
  \/ QueryEmbeddingReturns
  \/ QueryEmbeddingThrows
  \/ VectorRowsReturn
  \/ FallbackMatchesReturn
  \/ RegionsReturn
  \/ SearchQueryThrows

SearchSpec == Init /\ [][SearchNext]_vars

\* --------------------------------------------------- the search endpoint
\* GET /documents/:id/search/semantic: the limit of the query string is
\* validated, semanticSearch is awaited, and the answer is sent.
MaxSearchLimit == 50

\* the limit parameter of a request: absent, or a number
RequestLimits ==
  Limits \cup { Some(0), Some(MaxSearchLimit), Some(MaxSearchLimit + 1) }

\* z.coerce.number().min(1).max(max).optional() accepts the limit
ValidLimitUncapped(limit, max) == limit = None \/ limit[1] >= 1
ValidLimit(limit, max) == limit = None \/ (limit[1] >= 1 /\ limit[1] <= max)

\* schema.parse throws on a limit out of range, before semanticSearch is called
SearchRequested ==
  /\ search.pc = "idle"
  /\ \E doc \in Documents, query \in Queries, limit \in RequestLimits :
       search' =
         IF ValidLimit(limit, MaxSearchLimit)
           THEN [IdleSearch EXCEPT !.pc = "keywordMatches", !.doc = doc,
                                   !.query = query, !.limit = limit,
                                   !.endpoint = "semantic"]
           ELSE [IdleSearch EXCEPT !.pc = "rejected", !.limit = limit,
                                   !.endpoint = "semantic"]
  /\ searchUnchanged

\* semanticSearch returned: reply.send({ documentId, query, results })
SearchReplies ==
  /\ search.endpoint = "semantic"
  /\ search.pc = "returned"
  /\ search' = [search EXCEPT !.pc = "replied",
                              !.reply = Some([kind |-> "results",
                                              results |-> search.results])]
  /\ searchUnchanged

\* the failure of semanticSearch is passed on as an error response
SearchFailureRepliesError ==
  /\ search.endpoint = "semantic"
  /\ search.pc = "raised"
  /\ search' = [search EXCEPT !.pc = "replied",
                              !.reply = Some([kind |-> "error", results |-> <<>>])]
  /\ searchUnchanged

\* semanticSearch threw: the catch block sends results: []
SearchFailureReplies ==
  /\ search.endpoint = "semantic"
  /\ search.pc = "raised"
  /\ search' = [search EXCEPT !.pc = "replied",
                              !.reply = Some([kind |-> "results", results |-> <<>>])]
  /\ searchUnchanged

EndpointNext ==
  \/ SearchRequested
  \/ KeywordMatchesReturn
  \/ QueryEmbeddingReturns
  \/ QueryEmbeddingThrows
  \/ VectorRowsReturn
  \/ FallbackMatchesReturn
  \/ RegionsReturn
  \/ SearchQueryThrows
  \/ SearchReplies
  \/ SearchFailureReplies

EndpointSpec == Init /\ [][EndpointNext]_vars

\* ----------------------------------------------------------- /chat/stream
\* GET /chat/stream: after validation and the origin check the answer is a
\* stream of events: the tokens of the chat model, then done with the
\* citations, or error.
MaxChatLimit == 20

ChatLimits == Limits \cup { Some(MaxChatLimit), Some(MaxChatLimit + 1) }

\* the documents a chat is about: two pages of one and of two lines, and a
\* document of more pages than the default limit
ChatDocuments ==
  { << [text |-> <<"a", "b">>, embedded |-> TRUE],
       [text |-> <<"b", "\n", "A">>, embedded |-> TRUE] >>,
    LongDocument(TRUE) }

\* a server-sent event
Event(type, citations) == [type |-> type, citations |-> citations]

\* reply.raw.write of an event
write(sr, event) == [sr EXCEPT !.sent = Append(@, event)]

\* the citations of the done event, without the region ids
citationsOfPages(results) ==
  [i \in 1..Len(results) |->
     [pageNumber |-> results[i].pageNumber, regionIds |-> <<>>]]

\* results.map((r) => ({ pageNumber: r.pageNumber, regionIds: r.regionIds }))
citationsOf(results) ==
  [i \in 1..Len(results) |->
     [pageNumber |-> results[i].pageNumber, regionIds |-> results[i].regionIds]]

\* the catch block: an error event, unless the stream has ended
chatCatch(sr) ==
  IF sr.ended THEN [sr EXCEPT !.pc = "ended"]
  ELSE [write(sr, Event("error", <<>>)) EXCEPT !.pc = "ended", !.ended = TRUE]

\* the handler up to its first await
ChatRequested ==
  /\ search.pc = "idle"
  /\ \E doc \in ChatDocuments, query \in Queries, limit \in ChatLimits,
        originAllowed \in BOOLEAN :
       search' =
         IF ~ValidLimit(limit, MaxChatLimit)
           THEN [IdleSearch EXCEPT !.pc = "rejected", !.limit = limit,
                                   !.endpoint = "chat"]
         ELSE IF ~originAllowed
           THEN [IdleSearch EXCEPT !.pc = "replied", !.limit = limit,
                                   !.endpoint = "chat",
                                   !.reply = Some([kind |-> "origin_not_allowed",
                                                   results |-> <<>>])]
         ELSE [IdleSearch EXCEPT !.pc = "keywordMatches", !.doc = doc,
                                 !.query = query, !.limit = limit,
                                 !.endpoint = "chat"]
  /\ searchUnchanged

\* the "close" event of the request
ClientCloses ==
  /\ search.endpoint = "chat"
  /\ search.pc \notin {"rejected", "replied", "ended"}
  /\ ~search.closed
  /\ search' = [search EXCEPT !.closed = TRUE]
  /\ searchUnchanged

\* semanticSearch returned: the prompt is built and chatLlm.stream is called
ChatSearchReturned ==
  /\ search.endpoint = "chat"
  /\ search.pc = "returned"
  /\ search' = [search EXCEPT !.pc = "llm"]
  /\ searchUnchanged

\* semanticSearch threw
ChatSearchFailed ==
  /\ search.endpoint = "chat"
  /\ search.pc = "raised"
  /\ search' = chatCatch(search)
  /\ searchUnchanged

\* chatLlm.stream answers with a stream
LlmStreamOpens ==
  /\ search.pc = "llm"
  /\ search' = [search EXCEPT !.pc = "streaming"]
  /\ searchUnchanged

\* chatLlm.stream, or the iteration of its stream, throws
LlmThrows ==
  /\ search.pc \in {"llm", "streaming"}
  /\ search' = chatCatch([search EXCEPT !.error = "llm_error"])
  /\ searchUnchanged

\* a chunk of the stream: with a token or without one
ChunkArrives ==
  /\ search.pc = "streaming"
  /\ search.chunks < MaxChunks
  /\ \E token \in BOOLEAN :
       search' =
         IF search.closed THEN [search EXCEPT !.pc = "ended"]
         ELSE IF token
           THEN [write(search, Event("token", <<>>)) EXCEPT !.chunks = @ + 1]
         ELSE [search EXCEPT !.chunks = @ + 1]
  /\ searchUnchanged

\* the stream is exhausted and the handler returns without a last event
StreamEndsWithoutDone ==
  /\ search.pc = "streaming"
  /\ search' = [search EXCEPT !.pc = "ended"]
  /\ searchUnchanged

\* the stream is exhausted: done with the citations, unless the client left
StreamEnds ==
  /\ search.pc = "streaming"
  /\ search' =
       IF search.closed THEN [search EXCEPT !.pc = "ended"]
       ELSE [write(search, Event("done", citationsOf(search.results)))
               EXCEPT !.pc = "ended", !.ended = TRUE]
  /\ searchUnchanged

ChatNext ==
  \/ ChatRequested
  \/ ClientCloses
  \/ KeywordMatchesReturn
  \/ QueryEmbeddingReturns
  \/ QueryEmbeddingThrows
  \/ VectorRowsReturn
  \/ FallbackMatchesReturn
  \/ RegionsReturn
  \/ SearchQueryThrows
  \/ ChatSearchReturned
  \/ ChatSearchFailed
  \/ LlmStreamOpens
  \/ LlmThrows
  \/ ChunkArrives
  \/ StreamEnds

ChatSpec == Init /\ [][ChatNext]_vars

\* ------------------------------------------------ pickRegionIdsForText
\* The function applied to one page: a text of up to three lines, a query and
\* a list of 0..MaxRegionList regions.
MapTexts ==
  { <<"a", "\n", "b", "\n", "c">>, <<"A", "b", "\n", "b">>, <<"b">> }
MapQueries == { <<"a">>, <<"b">>, <<"c">>, <<"B">> }

calcUnchanged == UNCHANGED <<pipelineVars, joined, inbox, search, upload>>

\* the environment plays no part in a pure function
PureInit == Init /\ ~apiKey /\ ~imageEndpoint

PickRegionIdsCalled ==
  /\ calc.fn = "none"
  /\ \E text \in MapTexts, query \in MapQueries, N \in 0..MaxRegionList :
       calc' = [fn |-> "pickRegionIdsForText", pageNumber |-> 1, text |-> text,
                query |-> query,
                regionsByPage |-> (1 :> [k \in 1..N |-> RegionId(1, k)]),
                result |-> None]
  /\ calcUnchanged

PickRegionIdsReturns ==
  /\ calc.fn = "pickRegionIdsForText"
  /\ calc.result = None
  /\ calc' = [calc EXCEPT !.result =
                Some(pickRegionIdsForText(calc.pageNumber, calc.text, calc.query,
                                          calc.regionsByPage))]
  /\ calcUnchanged

RegionNext == PickRegionIdsCalled \/ PickRegionIdsReturns

RegionSpec == PureInit /\ [][RegionNext]_vars

\* ------------------------------------- the lines and regions of a page
\* extractTextFromPdf and analyzePdfLayout on one page of text items. Lengths
\* are in PDF units, y grows upwards; the page is 1000 x 1000, so a
\* normalised coordinate is a number of thousandths.
PageWidth == 1000
PageHeight == 1000

Item(text, x, y, w, h) == [text |-> text, x |-> x, y |-> y, width |-> w, height |-> h]

\* the text items a page is made of: two on one baseline, two a little lower
\* (890 joins a line at 900, 880 joins a line of mean 890 but not one of mean
\* 895), a blank, and items that start or end outside the page
Items ==
  { Item("a", 100, 900, 50, 10), Item("b", 200, 900, 50, 10),
    Item("c", 100, 890, 50, 10), Item("d", 100, 880, 50, 10),
    Item(" ", 100, 500, 50, 10), Item("e", -10, 500, 20, 10),
    Item("f", 990, 300, 50, 10), Item("g", 100, 1010, 50, 10),
    Item("h", 100, -50, 50, 10) }

ItemLists == UNION { [1..n -> Items] : n \in 0..MaxTokens }

\* the comparator of items.sort: a is placed before b
Before(a, b) == IF a.y = b.y THEN a.x < b.x ELSE a.y > b.y

\* items.sort(...): the sort is stable
RECURSIVE sortItems(_)
sortItems(items) ==
  IF Len(items) = 0 THEN <<>>
  ELSE LET sorted == sortItems(SubSeq(items, 1, Len(items) - 1))
           item == items[Len(items)]
           k == Cardinality({ i \in 1..Len(sorted) : ~Before(item, sorted[i]) })
       IN  SubSeq(sorted, 1, k) \o << item >> \o SubSeq(sorted, k + 1, Len(sorted))

Abs(n) == IF n < 0 THEN -n ELSE n

\* a number as a fraction; let currentY = 0
Whole(n) == [num |-> n, den |-> 1]

\* |item.y - currentY| <= height * 0.012
Joins(item, currentY, height) ==
  Abs(item.y * currentY.den - currentY.num) * 1000 <= height * 12 * currentY.den

\* currentY = item.y: the y of the item placed last
lastY(currentY, length, y) == Whole(y)

\* currentY = (currentY * (length - 1) + item.y) / length, length being that of
\* the line with the item in it
nextCurrentY(currentY, length, y) ==
  [num |-> currentY.num * (length - 1) + y * currentY.den,
   den |-> currentY.den * length]

\* the clustering loop leaving out the items that do not join the line
RECURSIVE clusterLinesJoined(_, _, _, _)
clusterLinesJoined(items, lines, currentY, height) ==
  IF Len(items) = 0 THEN lines
  ELSE LET item == Head(items)
       IN  IF Len(lines) = 0
             THEN clusterLinesJoined(Tail(items), << << item >> >>, Whole(item.y), height)
           ELSE IF Joins(item, currentY, height)
             THEN clusterLinesJoined(
                    Tail(items), [lines EXCEPT ![Len(lines)] = Append(@, item)],
                    nextCurrentY(currentY, Len(lines[Len(lines)]) + 1, item.y), height)
           ELSE clusterLinesJoined(Tail(items), lines, currentY, height)

\* the clustering loop over the sorted items: the lines so far and currentY
RECURSIVE clusterLines(_, _, _, _)
clusterLines(items, lines, currentY, height) ==
  IF Len(items) = 0 THEN lines
  ELSE LET item == Head(items)
       IN  IF Len(lines) = 0
             THEN clusterLines(Tail(items), << << item >> >>, Whole(item.y), height)
           ELSE IF Joins(item, currentY, height)
             THEN clusterLines(
                    Tail(items), [lines EXCEPT ![Len(lines)] = Append(@, item)],
                    nextCurrentY(currentY, Len(lines[Len(lines)]) + 1, item.y), height)
           ELSE clusterLines(Tail(items), Append(lines, << item >>), Whole(item.y), height)

\* line.items.map((it) => String(it.text || "")).join("")
joinedText(line) == [i \in 1..Len(line) |-> line[i].text]

\* String.prototype.trim
trim(text) ==
  LET solid == { i \in 1..Len(text) : text[i] \notin {" ", "\n"} }
  IN  IF solid = {} THEN <<>>
      ELSE SubSeq(text, CHOOSE i \in solid : \A j \in solid : i <= j,
                        CHOOSE i \in solid : \A j \in solid : i >= j)

\* segments.join("\n")
RECURSIVE joinLines(_)
joinLines(segments) ==
  IF Len(segments) = 0 THEN <<>>
  ELSE IF Len(segments) = 1 THEN segments[1]
  ELSE segments[1] \o << "\n" >> \o joinLines(Tail(segments))

\* the lines of extractTextFromPdf for the page
textLines(items) == clusterLines(sortItems(items), <<>>, Whole(0), PageHeight)

\* the segments of the page: the trimmed texts of its lines, blank ones left out
segmentsOf(lines) ==
  SelectSeq([i \in 1..Len(lines) |-> trim(joinedText(lines[i]))],
            LAMBDA lineText : Len(lineText) > 0)

Min(a, b) == IF a < b THEN a ELSE b
Max(a, b) == IF a > b THEN a ELSE b
MinOf(S) == CHOOSE a \in S : \A b \in S : a <= b
MaxOf(S) == CHOOSE a \in S : \A b \in S : a >= b

\* the bbox of a line in thousandths. The extremes of items with finite
\* coordinates are finite, so the isFinite guard never skips a line.
bboxOf(line, width, height) ==
  LET minX == MinOf({ line[i].x : i \in 1..Len(line) })
      maxX == MaxOf({ line[i].x + line[i].width : i \in 1..Len(line) })
      minY == MinOf({ line[i].y : i \in 1..Len(line) })
      maxY == MaxOf({ line[i].y + line[i].height : i \in 1..Len(line) })
      paddingY == height * 4
  IN  [ x0 |-> (minX * 1000) \div width,
        x1 |-> (maxX * 1000) \div width,
        y0 |-> Max(0, (minY * 1000 - paddingY) \div height),
        y1 |-> Min(1000, (maxY * 1000 + paddingY) \div height) ]

\* the regions loop making a region of every line, blank or not
layoutRegionsOfAllLines(items) ==
  LET lines == clusterLines(sortItems(items), <<>>, Whole(0), PageHeight)
  IN  [k \in 1..Len(lines) |->
         [id |-> RegionId(1, k), pageNumber |-> 1, type |-> "other",
          bbox |-> bboxOf(lines[k], PageWidth, PageHeight)]]

\* the regions of analyzePdfLayout for the page: one per line that is not
\* blank, in the order of the lines; the k-th is given the identity (1, k)
layoutRegions(items) ==
  LET lines == clusterLines(sortItems(items), <<>>, Whole(0), PageHeight)
      solid == SelectSeq(lines, LAMBDA line : Len(trim(joinedText(line))) > 0)
  IN  [k \in 1..Len(solid) |->
         [id |-> RegionId(1, k), pageNumber |-> 1, type |-> "other",
          bbox |-> bboxOf(solid[k], PageWidth, PageHeight)]]

\* visualRegion.findMany(... orderBy: [{ pageNumber: "asc" }, { y0: "asc" }]):
\* the rows by ascending y0, rows of equal y0 in any order
regionsByY0(regions) ==
  { [i \in 1..Len(regions) |-> regions[f[i]]] :
      f \in { g \in [1..Len(regions) -> 1..Len(regions)] :
                /\ \A i, j \in 1..Len(regions) : i # j => g[i] # g[j]
                /\ \A i, j \in 1..Len(regions) :
                     i < j => regions[g[i]].bbox.y0 <= regions[g[j]].bbox.y0 } }

\* the page is read: its text items
PageRead ==
  /\ calc.fn = "none"
  /\ \E items \in ItemLists :
       calc' = [fn |-> "page", pc |-> "extracting_text", items |-> items,
                lines |-> <<>>, segments |-> <<>>, text |-> <<>>,
                regions |-> <<>>, fetched |-> <<>>]
  /\ calcUnchanged

\* extractTextFromPdf on the page
PageTextExtracted ==
  /\ calc.fn = "page"
  /\ calc.pc = "extracting_text"
  /\ LET lines == textLines(calc.items)
     IN  calc' = [calc EXCEPT !.pc = "layout_analysis", !.lines = lines,
                              !.segments = segmentsOf(lines),
                              !.text = joinLines(segmentsOf(lines))]
  /\ calcUnchanged

\* analyzePdfLayout on the page; writeDatabase stores the regions as they are
PageLayoutAnalyzed ==
  /\ calc.fn = "page"
  /\ calc.pc = "layout_analysis"
  /\ calc' = [calc EXCEPT !.pc = "stored", !.regions = layoutRegions(calc.items)]
  /\ calcUnchanged

\* buildResultsFromTextPages fetches the regions of the page
PageRegionsFetched ==
  /\ calc.fn = "page"
  /\ calc.pc = "stored"
  /\ \E rows \in regionsByY0(calc.regions) :
       calc' = [calc EXCEPT !.pc = "fetched", !.fetched = rows]
  /\ calcUnchanged

GeometryNext ==
  \/ PageRead
  \/ PageTextExtracted
  \/ PageLayoutAnalyzed
  \/ PageRegionsFetched

GeometrySpec == PureInit /\ [][GeometryNext]_vars

\* --------------------------------------------------- the chunked upload
\* /upload/init, /upload/chunk and /upload/complete for one upload of
\* MaxChunkCount chunks; up to MaxRequests requests, in flight together. An
\* action is the code between two awaits of a handler.
uploadUnchanged == UNCHANGED <<pipelineVars, joined, inbox, search, calc>>

\* the requests take the slots in their order of arrival
arrives(r) ==
  /\ upload.requests[r].pc = "idle"
  /\ \A q \in 1..(r - 1) : upload.requests[q].pc # "idle"

\* /upload/init for a new upload: the metadata file is written
UploadInit ==
  /\ ~upload.initialized
  /\ upload' = [upload EXCEPT
       !.metadata = Some([totalChunks |-> MaxChunkCount, receivedChunks |-> <<>>]),
       !.initialized = TRUE]
  /\ uploadUnchanged

\* PUT /upload/chunk arrives: index is any integer from 0
ChunkRequested ==
  \E r \in 1..MaxRequests, index \in 0..MaxChunkCount, data \in {"good", "bad"} :
    /\ arrives(r)
    /\ upload' = [upload EXCEPT !.requests[r] =
         [IdleRequest EXCEPT !.kind = "chunk", !.pc = "loadMetadata",
                             !.index = index, !.data = data]]
    /\ uploadUnchanged

\* loadUploadMetadata has answered the chunk handler
ChunkMetadataLoaded ==
  \E r \in 1..MaxRequests :
    /\ upload.requests[r].kind = "chunk"
    /\ upload.requests[r].pc = "loadMetadata"
    /\ upload' =
         IF upload.metadata = None THEN replies(upload, r, "upload_not_found")
         ELSE IF upload.requests[r].index >= upload.metadata[1].totalChunks
           THEN replies(upload, r, "invalid_chunk_index")
         ELSE [upload EXCEPT !.requests[r].pc = "writeChunk",
                             !.requests[r].metadata = upload.metadata]
    /\ uploadUnchanged

\* the body of the chunk is on disk: the index is added to the handler's
\* copy of the metadata, which is then saved
ChunkWritten ==
  \E r \in 1..MaxRequests :
    /\ upload.requests[r].kind = "chunk"
    /\ upload.requests[r].pc = "writeChunk"
    /\ LET req == upload.requests[r]
           up1 == [upload EXCEPT !.chunks[req.index] = req.data]
       IN  upload' =
             IF includes(req.metadata[1].receivedChunks, req.index)
               THEN [replies(up1, r, "ok") EXCEPT !.acked = @ \cup {req.index}]
               ELSE [up1 EXCEPT !.requests[r].pc = "saveMetadata",
                                !.requests[r].metadata[1].receivedChunks =
                                   pushSorted(@, req.index)]
    /\ uploadUnchanged

\* the body stream fails: the chunk file is removed and the error is thrown
ChunkWriteFails ==
  \E r \in 1..MaxRequests :
    /\ upload.requests[r].kind = "chunk"
    /\ upload.requests[r].pc = "writeChunk"
    /\ upload' = replies([upload EXCEPT !.chunks[upload.requests[r].index] = "none"],
                         r, "error")
    /\ uploadUnchanged

\* saveUploadMetadata has written the handler's copy: reply ok
ChunkMetadataSaved ==
  \E r \in 1..MaxRequests :
    /\ upload.requests[r].kind = "chunk"
    /\ upload.requests[r].pc = "saveMetadata"
    /\ upload' = [replies(upload, r, "ok") EXCEPT
                    !.metadata = upload.requests[r].metadata,
                    !.acked = @ \cup {upload.requests[r].index}]
    /\ uploadUnchanged

\* POST /upload/complete arrives
CompleteRequested ==
  \E r \in 1..MaxRequests :
    /\ arrives(r)
    /\ upload' = [upload EXCEPT !.requests[r] =
         [IdleRequest EXCEPT !.kind = "complete", !.pc = "loadMetadata"]]
    /\ uploadUnchanged

\* loadUploadMetadata has answered the complete handler
CompleteMetadataLoaded ==
  \E r \in 1..MaxRequests :
    /\ upload.requests[r].kind = "complete"
    /\ upload.requests[r].pc = "loadMetadata"
    /\ upload' =
         IF upload.metadata = None THEN replies(upload, r, "upload_not_found")
         ELSE IF Len(upload.metadata[1].receivedChunks) # upload.metadata[1].totalChunks
           THEN replies(upload, r, "chunks_incomplete")
         ELSE [upload EXCEPT !.requests[r].pc = "readChunk",
                             !.requests[r].metadata = upload.metadata]
    /\ uploadUnchanged

\* the assembly loop accepting the file whatever its digest
CompleteChunkReadNoDigest ==
  \E r \in 1..MaxRequests :
    /\ upload.requests[r].kind = "complete"
    /\ upload.requests[r].pc = "readChunk"
    /\ LET req == upload.requests[r]
           data == upload.chunks[Len(req.read)]
           read == Append(req.read, data)
       IN  upload' =
             IF data = "none" THEN replies(upload, r, "error")
             ELSE IF Len(read) < req.metadata[1].totalChunks
               THEN [upload EXCEPT !.requests[r].read = read]
             ELSE [upload EXCEPT !.requests[r].read = read,
                                 !.requests[r].pc = "saveIndex"]
    /\ uploadUnchanged

\* the assembly loop: one chunk file is read, hashed and appended; after the
\* last one the digest is compared with the declared hash
CompleteChunkRead ==
  \E r \in 1..MaxRequests :
    /\ upload.requests[r].kind = "complete"
    /\ upload.requests[r].pc = "readChunk"
    /\ LET req == upload.requests[r]
           data == upload.chunks[Len(req.read)]
           read == Append(req.read, data)
       IN  upload' =
             IF data = "none" THEN replies(upload, r, "error")
             ELSE IF Len(read) < req.metadata[1].totalChunks
               THEN [upload EXCEPT !.requests[r].read = read]
             ELSE IF ~digestMatches(read)
               THEN replies([upload EXCEPT !.requests[r].read = read], r, "hash_mismatch")
             ELSE [upload EXCEPT !.requests[r].read = read,
                                 !.requests[r].pc = "saveIndex"]
    /\ uploadUnchanged

\* the upload index is saved with hash -> file, and the task is created
CompleteIndexSaved ==
  \E r \in 1..MaxRequests :
    /\ upload.requests[r].kind = "complete"
    /\ upload.requests[r].pc = "saveIndex"
    /\ upload' = [upload EXCEPT !.index = @ \cup {"hash"},
                                !.requests[r].pc = "cleanup"]
    /\ CommitState(createTask(State, OnePage))
    /\ UNCHANGED <<apiKey, imageEndpoint, search, calc>>

\* the chunk directory and the metadata file are removed: reply taskId
CompleteCleaned ==
  \E r \in 1..MaxRequests :
    /\ upload.requests[r].kind = "complete"
    /\ upload.requests[r].pc = "cleanup"
    /\ upload' = replies([upload EXCEPT
                            !.metadata = None,
                            !.chunks = [i \in 0..(MaxChunkCount - 1) |-> "none"]],
                         r, "taskId")
    /\ uploadUnchanged

UploadNext ==
  \/ UploadInit
  \/ ChunkRequested
  \/ ChunkMetadataLoaded
  \/ ChunkWritten
  \/ ChunkWriteFails
  \/ ChunkMetadataSaved
  \/ CompleteRequested
  \/ CompleteMetadataLoaded
  \/ CompleteChunkRead
  \/ CompleteIndexSaved
  \/ CompleteCleaned

UploadSpec == PureInit /\ [][UploadNext]_vars

\* ================================================================ claims
Executing ==
  { "extracting_text", "layout_analysis", "generating_text_embeddings",
    "generating_image_embeddings", "writing_database" }
Terminal == { "completed", "failed" }

\* the position of a stage in the fixed order
StageRank(stage) ==
  CASE stage = "queued" -> 0
    [] stage = "extracting_text" -> 1
    [] stage = "layout_analysis" -> 2
    [] stage = "generating_text_embeddings" -> 3
    [] stage = "generating_image_embeddings" -> 4
    [] stage = "writing_database" -> 5
    [] stage = "completed" -> 6
    [] stage = "failed" -> 7

\* an external call of task t threw in a handler that lets the exception escape
Escaping(t) ==
  \E k \in 1..Len(thrown[t]) : thrown[t][k].handler # "generateTextEmbeddings"

\* C1: at any moment at most one task has a stage among extracting_text,
\* layout_analysis, generating_text_embeddings, generating_image_embeddings and
\* writing_database, whenever createTask is called.
C1_OneTaskExecuting ==
  Cardinality({ t \in Ids : tasks[t].stage \in Executing }) <= 1

\* a task is suspended inside a stage while a task created meanwhile waits
C1_Witness ==
  \E a, b \in Ids :
    /\ tasks[a].stage = "writing_database"
    /\ frames[a].writes > 0
    /\ tasks[b].stage = "queued"

\* C2: tasks start in the order of their createTask calls: a task created
\* later has left queued only when every task created before it is completed
\* or failed.
C2_Fifo ==
  \A a, b \in Ids :
    (a < b /\ tasks[b].stage # "queued") => tasks[a].stage \in Terminal

\* three tasks: the first is done, the second runs, the third still waits
C2_Witness ==
  /\ Len(tasks) = 3
  /\ tasks[1].stage \in Terminal
  /\ tasks[2].stage \in Executing
  /\ tasks[3].stage = "queued"

\* C3: the values a task's stage takes start with queued and follow the fixed
\* order: each value is later in the order than the one before it, or is
\* failed, and nothing follows completed or failed.
C3_StageOrder ==
  \A t \in Ids :
    LET log == stageLog[t]
    IN  /\ log[1] = "queued"
        /\ tasks[t].stage = log[Len(log)]
        /\ \A i \in 1..(Len(log) - 1) :
             /\ log[i] \notin Terminal
             /\ log[i + 1] = "failed" \/ StageRank(log[i + 1]) > StageRank(log[i])

\* one task went through every stage to completed, another failed in a stage
C3_Witness ==
  /\ \E t \in Ids :
       /\ tasks[t].stage = "completed"
       /\ Len(stageLog[t]) = Len(stages) + 2
  /\ \E u \in Ids :
       /\ tasks[u].stage = "failed"
       /\ Len(stageLog[u]) > 3

\* C4: a task is failed only when a stage of its own threw, and a task whose
\* run is over without such an exception is completed; the driver is never idle
\* while a task waits, and the finally block of runNext starts the next waiting
\* task in the same step, whatever the outcome of the task before.
C4_FailureIsolation ==
  /\ [](\A t \in Ids :
          /\ tasks[t].stage = "failed" => Escaping(t)
          /\ (frames[t].pc \in {"runNextFinally", "done"} /\ ~Escaping(t))
               => tasks[t].stage = "completed")
  /\ [](~running => queue = <<>>)
  /\ [][\A t \in Ids :
          (frames[t].pc = "runNextFinally" /\ frames'[t].pc = "done" /\ queue # <<>>)
            => /\ tasks'[Head(queue)].stage = "extracting_text"
               /\ queue' = Tail(queue)]_vars

\* A, B and C were submitted in this order; B failed, A and C completed
C4_Witness ==
  /\ Len(tasks) = 3
  /\ tasks[1].stage = "completed" /\ thrown[1] = <<>>
  /\ tasks[2].stage = "failed" /\ Escaping(2)
  /\ tasks[3].stage = "completed" /\ thrown[3] = <<>>

C6_EveryTaskTerminates ==
  \A t \in 1..MaxQueued :
    (t \in Ids) ~> (t \in Ids /\ tasks[t].stage \in Terminal)

\* every task of a full run is terminal, and the last one had to wait queued
C6_Witness ==
  /\ Len(tasks) = MaxQueued
  /\ \A t \in Ids : tasks[t].stage \in Terminal
  /\ events[MaxQueued][1].stage = "queued"

\* C7: once a task's stage is completed or failed, its stage, progress and
\* error never change, and its stage takes at most one of the two values.
C7_TerminalOnce ==
  /\ [](\A t \in Ids :
          Cardinality({ i \in 1..Len(stageLog[t]) : stageLog[t][i] \in Terminal }) <= 1)
  /\ [][\A t \in Ids :
          tasks[t].stage \in Terminal =>
            /\ tasks'[t].stage = tasks[t].stage
            /\ tasks'[t].progress = tasks[t].progress
            /\ tasks'[t].error = tasks[t].error]_vars

\* a task is terminal and its driver run is over while a later task executes
C7_Witness ==
  \E t, u \in Ids :
    /\ tasks[t].stage \in Terminal
    /\ frames[t].pc = "done"
    /\ tasks[u].stage \in Executing

\* C8: no run of runNext ends with a rejected promise, whatever the stage
\* handlers do.
C8_DriverNeverRaises ==
  /\ ~escaped
  /\ \A t \in Ids : ~frames[t].rejected

\* a stage handler threw and the runNext run of that task is over
C8_Witness ==
  \E t \in Ids :
    /\ Escaping(t)
    /\ frames[t].pc = "done"

C10_ProgressMonotone ==
  /\ [](\A t \in Ids : tasks[t].progress \in 0..100)
  /\ [][\A t \in Ids :
          /\ tasks'[t].progress >= tasks[t].progress
          /\ tasks'[t].progress # tasks[t].progress => tasks'[t].stage # tasks[t].stage
          /\ (tasks'[t].stage = "failed" /\ tasks[t].stage # "failed")
               => tasks'[t].progress = tasks[t].progress]_vars

\* a task failed in its last stage and kept that stage's progress
C10_Witness ==
  \E t \in Ids :
    /\ tasks[t].stage = "failed"
    /\ tasks[t].progress = LoopProgress(Len(stages))

\* progress of event a is at most / less than the progress of event b
ProgressLeq(a, b) == a.num * b.den <= b.num * a.den
ProgressLess(a, b) == a.num * b.den < b.num * a.den

\* the events of a task that carry a given stage, in publication order
StageEvents(t, stage) == SelectSeq(events[t], LAMBDA e : e.stage = stage)

\* C11 as stated: the progress values of the events published for one task,
\* the queued event, the stage-entry events, the per-page events and the
\* terminal event taken together in publication order, never decrease.
C11_PublishedProgressMonotone ==
  \A t \in Ids : \A i \in 1..(Len(events[t]) - 1) :
    ProgressLeq(events[t][i], events[t][i + 1])

\* C12 as stated: when a task enters a stage, the progress recorded on the task
\* is the baseline of the stage (5, 25, 45, 65, 85, 100), and so is the progress
\* of the event published for the entry.
C12_StageEntryBaseline ==
  \A t \in Ids :
    LET stage == tasks[t].stage
        entry == StageEvents(t, stage)
    IN  stage \in Executing \cup {"completed"} =>
          /\ tasks[t].progress = stageBaseProgress(stage)
          /\ entry # <<>>
          /\ entry[1].num = stageBaseProgress(stage) * entry[1].den

\* C13 as stated: when the text-embedding stage of a task has processed its N
\* text pages without a failed request, N events were published while it did,
\* after the event of the stage entry; the k-th has progress
\* baseline + (k / N) * 15, is strictly greater than the event of the stage
\* published before it, and lies within [baseline, baseline + 15].
C13_PerPageEvents ==
  \A t \in Ids :
    tasks[t].meta.textEmbeddings # None =>
      LET ev == StageEvents(t, "generating_text_embeddings")
          N == Len(tasks[t].meta.textPages[1])
          baseline == stageBaseProgress("generating_text_embeddings")
      IN  /\ Len(ev) = N + 1
          /\ \A k \in 1..N :
                /\ ev[k + 1].num * N = (baseline * N + k * 15) * ev[k + 1].den
                /\ ProgressLess(ev[k], ev[k + 1])
                /\ baseline * ev[k + 1].den <= ev[k + 1].num
                /\ ev[k + 1].num <= (baseline + 15) * ev[k + 1].den

\* the positions of a stage in the values a task's stage has taken
StagePositions(t, stage) == { i \in 1..Len(stageLog[t]) : stageLog[t][i] = stage }

\* the task has layout data: layout analysis recorded at least one page
HasLayoutData(task) ==
  task.meta.layoutPages # None /\ Len(task.meta.layoutPages[1]) > 0

\* C14 as stated: a task that has entered writing_database without having
\* entered generating_image_embeddings has no layout data, or no image-embedding
\* endpoint is configured; a task that has entered generating_image_embeddings
\* did so after generating_text_embeddings and before writing_database.
C14_ImageStageSkippedOnlyWithoutBackend ==
  \A t \in Ids :
    /\ (/\ StagePositions(t, "writing_database") # {}
        /\ StagePositions(t, "generating_image_embeddings") = {})
         => (~HasLayoutData(tasks[t]) \/ ~imageEndpoint)
    /\ \A i \in StagePositions(t, "generating_image_embeddings") :
         /\ \E j \in StagePositions(t, "generating_text_embeddings") : j < i
         /\ \A j \in StagePositions(t, "writing_database") : i < j

\* C15: while OPENAI_API_KEY is not set, no embedding request of any task is
\* answered or fails (no page processed, no per-page event, no exception of the
\* stage), no task has text embeddings, a task is failed only by an exception
\* of another stage, and the step that ends the embedding stage of a task moves
\* it to writing_database with its metadata unchanged.
C15_NoBackendNoOp ==
  /\ [](~apiKey =>
          \A t \in Ids :
            /\ tasks[t].meta.textEmbeddings = None
            /\ frames[t].index = 0 /\ frames[t].embeddings = <<>>
            /\ Len(StageEvents(t, "generating_text_embeddings")) <= 1
            /\ \A k \in 1..Len(thrown[t]) :
                 thrown[t][k].handler # "generateTextEmbeddings"
            /\ tasks[t].stage = "failed" => Escaping(t))
  /\ [][~apiKey =>
          \A t \in Ids :
            (frames[t].pc = "generateTextEmbeddings" /\ frames'[t] # frames[t])
              => /\ tasks'[t].stage = "writing_database"
                 /\ tasks'[t].meta = tasks[t].meta]_vars

\* without a key, a document with pages went through the embedding stage,
\* had its rows written and is completed
C15_Witness ==
  /\ ~apiKey
  /\ \E t \in Ids :
       /\ HasTextPages(tasks[t])
       /\ tasks[t].stage = "completed"
       /\ tasks[t].meta.textEmbeddings = None
       /\ StagePositions(t, "generating_text_embeddings") # {}
       /\ \E row \in db : row.doc = t /\ row.kind = "textPage"

\* the fields of task.meta the stages write
MetaFields == {"textPages", "layoutPages", "textEmbeddings", "imageEmbeddings"}

\* C16: once a field of a task's metadata (text pages, layout pages, text
\* embeddings) is present, every later step leaves it present with the same
\* value.
C16_MetadataOnlyAdded ==
  [][\A t \in Ids : \A f \in MetaFields :
       tasks[t].meta[f] # None => tasks'[t].meta[f] = tasks[t].meta[f]]_vars

\* the three stage outputs are all present once the database is being written
C16_Witness ==
  \E t \in Ids :
    /\ tasks[t].meta.textPages # None
    /\ tasks[t].meta.layoutPages # None
    /\ tasks[t].meta.textEmbeddings # None
    /\ tasks[t].stage = "writing_database"
    /\ frames[t].writes > 0

\* the ids createTask has returned so far: one per call
Returned == 1..Len(stageLog)

\* C17: getTask returns a task for every id createTask has returned, in every
\* stage of the task, and the same task (same source file) as before; for an
\* id createTask has not returned it returns nothing.
C17_GetTask ==
  /\ [](\A id \in 0..(MaxTasks + 1) :
          IF id \in Returned
            THEN /\ getTask(State, id) # None
                 /\ getTask(State, id)[1].stage = stageLog[id][Len(stageLog[id])]
            ELSE getTask(State, id) = None)
  /\ [][\A id \in Returned :
          /\ getTask([tasks |-> tasks'], id) # None
          /\ getTask([tasks |-> tasks'], id)[1].sourcePath
               = getTask(State, id)[1].sourcePath]_vars

\* a task is looked up after its run is over, while an id not yet handed out
\* is unknown
C17_Witness ==
  \E t \in Returned :
    /\ frames[t].pc = "done"
    /\ getTask(State, t) # None
    /\ getTask(State, t)[1].stage \in Terminal
    /\ Len(tasks) < MaxTasks
    /\ getTask(State, Len(tasks) + 1) = None

\* C18: whatever rooms the client has joined and however many events it has
\* not handled yet, a step of the running task is enabled, no run of the driver
\* is rejected and a task is failed only by an exception of one of its own
\* stages; a step of the client (joining a room, handling an event) changes
\* nothing of the pipeline.
C18_FireAndForget ==
  /\ [](running => ENABLED QueueStep)
  /\ [](~escaped /\ \A t \in Ids : tasks[t].stage = "failed" => Escaping(t))
  /\ [][(joined' # joined \/ inbox' < inbox) => UNCHANGED pipelineVars]_vars

\* a task completed while nobody was in its room, and another while the
\* client, in its room, had handled none of the events sent to it
C18_Witness ==
  \E t, u \in Ids :
    /\ t \notin joined /\ tasks[t].stage = "completed"
    /\ u \in joined /\ tasks[u].stage = "completed"
    /\ inbox >= Len(stages)

\* the pages of the searched document whose text contains the query
LiteralHits == { p \in DOMAIN search.doc : Contains(search.doc[p].text, search.query) }

\* the page numbers of the results, in order
ResultPages == [i \in 1..Len(search.results) |-> search.results[i].pageNumber]

\* the results are the literal hits of lowest page number, in ascending order,
\* as many as the limit allows
LiteralResults ==
  LET K == effectiveLimit(search.limit)
      n == IF K < Cardinality(LiteralHits) THEN K ELSE Cardinality(LiteralHits)
  IN  /\ Len(ResultPages) = n
      /\ \A i \in 1..n : ResultPages[i] \in LiteralHits
      /\ \A i \in 1..(n - 1) : ResultPages[i] < ResultPages[i + 1]
      /\ \A i \in 1..n : \A p \in LiteralHits :
           p < ResultPages[i] => \E j \in 1..(i - 1) : ResultPages[j] = p

\* C19: when a page of the document contains the query, no query embedding is
\* requested and the similarity query is not run, and the results returned are
\* exactly the literal hits, by ascending page number, up to the limit; an
\* embedding is requested only when no page contains the query.
C19_LiteralPathFirst ==
  /\ LiteralHits # {} =>
       /\ search.requests = 0
       /\ search.pc \notin {"embedding", "vectorRows", "fallbackMatches"}
       /\ search.path \in {"none", "literal"}
       /\ search.pc = "returned" => LiteralResults
  /\ (search.requests > 0 \/ search.path = "vector") => LiteralHits = {}

\* a search with a limit below the number of literal hits has returned, and
\* the document has embeddings the vector path could have ranked
C19_Witness ==
  /\ search.pc = "returned"
  /\ Cardinality(LiteralHits) > effectiveLimit(search.limit)
  /\ Len(search.results) = effectiveLimit(search.limit)
  /\ \E p \in DOMAIN search.doc : search.doc[p].embedded
  /\ apiKey

\* C20 as stated: when no page contains the query and the embedding request
\* threw or answered without a vector, semanticSearch does not raise, and what
\* it returns is the list of literal matches.
C20_EmbeddingFailureFallsBack ==
  (LiteralHits = {} /\ search.response \in {"threw", "empty"}) =>
    /\ search.pc = "raised" => search.error = "persistence_error"
    /\ search.pc = "returned" => LiteralResults

\* the application of pickRegionIdsForText has returned
Picked == calc.fn = "pickRegionIdsForText" /\ calc.result # None

\* the regions of the page, the offset of the first occurrence of the query
\* (letter case ignored) and the line it lies on
PickedRegions == calc.regionsByPage[calc.pageNumber]
PickedOffset == indexOf(toLowerCase(calc.text), toLowerCase(calc.query))
PickedLine == Newlines(slice(calc.text, 0, PickedOffset))

\* C23 as stated: for N >= 1 regions and a first match on line L, the result
\* is the list of the regions at the indices max(0, L - 1) .. min(N - 1, L + 1),
\* in order.
C23_RegionWindow ==
  (Picked /\ Len(PickedRegions) >= 1 /\ PickedOffset # -1) =>
    LET N == Len(PickedRegions)
        L == PickedLine
        lo == IF L - 1 > 0 THEN L - 1 ELSE 0
        hi == IF L + 1 < N - 1 THEN L + 1 ELSE N - 1
    IN  calc.result[1] = [k \in 1..(hi - lo + 1) |-> PickedRegions[lo + k]]

Accepted == search.endpoint = "semantic" /\ search.pc # "rejected"
Replied == search.endpoint = "semantic" /\ search.pc = "replied"

\* C21: a request the search endpoint has accepted is answered with a result
\* list and never with an error; when a step of semanticSearch failed (a
\* database query, the missing embedding configuration, the embedding
\* request), the list is empty.
C21_FailuresAnswerEmptyList ==
  /\ Accepted => search.pc \in { "keywordMatches", "embedding", "vectorRows",
                                  "fallbackMatches", "regions", "returned",
                                  "raised", "replied" }
  /\ Replied =>
       /\ search.reply # None
       /\ search.reply[1].kind = "results"
       /\ search.error # NoMessage => search.reply[1].results = <<>>
       /\ search.error = NoMessage => search.reply[1].results = search.results

\* the embedding request of an accepted search threw and the request has
\* been answered
C21_Witness ==
  /\ Replied
  /\ search.error = "embedding_error"
  /\ search.reply = Some([kind |-> "results", results |-> <<>>])

\* C22: an accepted request has no limit above 50, and the answer holds at
\* most as many results as the limit, or 10 without a limit, whichever path
\* produced them.
C22_AtMostLimitResults ==
  Accepted =>
    LET K == IF search.limit = None THEN 10 ELSE search.limit[1]
    IN  /\ K <= 50
        /\ Len(search.results) <= K
        /\ Len(search.matches) <= K
        /\ Replied => Len(search.reply[1].results) <= K

\* a request without a limit on a document of 11 pages is answered with 10
\* results, ranked by the vector path
C22_Witness ==
  /\ Replied
  /\ search.limit = None
  /\ search.path = "vector"
  /\ Len(search.doc) = 11
  /\ Len(search.reply[1].results) = 10

\* semanticSearch has returned results made from literal substring hits
LiteralReturned ==
  search.pc = "returned" /\ search.path \in {"literal", "fallback"}

\* the text of the page a result is about
ResultText(i) == search.doc[search.results[i].pageNumber].text

\* C26 as stated: a result made from a literal hit names a page whose text
\* contains the query, and its snippet contains the query string.
C26_SnippetContainsQuery ==
  LiteralReturned =>
    \A i \in 1..Len(search.results) :
      /\ search.results[i].pageNumber \in DOMAIN search.doc
      /\ Contains(ResultText(i), search.query)
      /\ Contains(search.results[i].snippet, search.query)

\* C26 amended: a result made from a literal hit names a page whose text
\* contains the query, and its snippet contains the first occurrence of the
\* query in that text with letter case ignored, as the text writes it; so it
\* contains the query string up to letter case.
C26_SnippetContainsFirstOccurrence ==
  LiteralReturned =>
    \A i \in 1..Len(search.results) :
      /\ search.results[i].pageNumber \in DOMAIN search.doc
      /\ Contains(ResultText(i), search.query)
      /\ LET idx == indexOf(toLowerCase(ResultText(i)), toLowerCase(search.query))
         IN  /\ idx # -1
             /\ Contains(search.results[i].snippet,
                         slice(ResultText(i), idx, idx + Len(search.query)))
      /\ Contains(toLowerCase(search.results[i].snippet), toLowerCase(search.query))

\* a literal hit on the long page: the snippet is its head, cut after the
\* window and marked with the ellipsis
C26_Witness ==
  /\ LiteralReturned
  /\ \E i \in 1..Len(search.results) :
       /\ ResultText(i) = LongText
       /\ search.query = <<"a">>
       /\ search.results[i].snippet = SubSeq(LongText, 1, window + 1) \o << Ellipsis >>

\* the done events a chat answer has sent
DoneEvents == { i \in 1..Len(search.sent) : search.sent[i].type = "done" }

\* C27: the citations of the done event of a chat answer are the pairs
\* (pageNumber, regionIds) of the results semanticSearch returned for the
\* request, one per result and in their order.
C27_CitationsAreSearchResults ==
  \A e \in DoneEvents :
    LET citations == search.sent[e].citations
    IN  /\ Len(citations) = Len(search.results)
        /\ \A i \in 1..Len(citations) :
             /\ citations[i].pageNumber = search.results[i].pageNumber
             /\ citations[i].regionIds = search.results[i].regionIds

\* a chat answer ended with done and two citations: page 1 with its one
\* region, page 2 with its two
C27_Witness ==
  /\ search.endpoint = "chat"
  /\ search.pc = "ended"
  /\ search.query = <<"b">>
  /\ \E e \in DoneEvents :
       search.sent[e].citations =
         << [pageNumber |-> 1, regionIds |-> << RegionId(1, 1) >>],
            [pageNumber |-> 2, regionIds |-> << RegionId(2, 2), RegionId(2, 1) >>] >>

\* the page has gone through the text extractor / the layout analyzer / the
\* fetch of its regions
Extracted == calc.fn = "page" /\ calc.pc # "extracting_text"
Analyzed == calc.fn = "page" /\ calc.pc \in {"stored", "fetched"}
Fetched == calc.fn = "page" /\ calc.pc = "fetched"

\* C25 as stated: the i-th region of the list fetched for mapping is the
\* region made from the i-th line of the page text, counted from the top.
C25_FetchedInReadingOrder ==
  Fetched =>
    \A i \in 1..Len(calc.fetched) : calc.fetched[i].id = RegionId(1, i)

C29_BboxInUnitSquare ==
  Analyzed =>
    \A k \in 1..Len(calc.regions) :
      LET bbox == calc.regions[k].bbox
      IN  /\ 0 <= bbox.x0 /\ bbox.x0 <= bbox.x1 /\ bbox.x1 <= 1000
          /\ 0 <= bbox.y0 /\ bbox.y0 <= bbox.y1 /\ bbox.y1 <= 1000

\* the concatenation of a list of lists
RECURSIVE Flatten(_)
Flatten(lists) ==
  IF Len(lists) = 0 THEN <<>> ELSE Head(lists) \o Flatten(Tail(lists))

\* how often an item occurs in a list
Occurrences(list, item) == Cardinality({ i \in 1..Len(list) : list[i] = item })

\* C30: the lines are consecutive runs of the sorted items, none empty: put
\* one after the other they are the sorted list, which holds every item of
\* the page as often as the page does; so the lines are at most as many as
\* the items, and their texts in order are the item texts in sorted order.
C30_LinesPartitionSortedItems ==
  Extracted =>
    /\ \A k \in 1..Len(calc.lines) : Len(calc.lines[k]) >= 1
    /\ Flatten(calc.lines) = sortItems(calc.items)
    /\ \A item \in Items :
         Occurrences(Flatten(calc.lines), item) = Occurrences(calc.items, item)
    /\ \A i \in 1..(Len(calc.items) - 1) :
         ~Before(Flatten(calc.lines)[i + 1], Flatten(calc.lines)[i])
    /\ Len(calc.lines) <= Len(calc.items)
    /\ Flatten([k \in 1..Len(calc.lines) |-> joinedText(calc.lines[k])])
         = joinedText(sortItems(calc.items))

\* three items given in another order than the sorted one, clustered into a
\* line of two and a line of one
C30_Witness ==
  /\ Extracted
  /\ calc.items = << Item("d", 100, 880, 50, 10), Item("b", 200, 900, 50, 10),
                     Item("c", 100, 890, 50, 10) >>
  /\ calc.lines = << << Item("b", 200, 900, 50, 10), Item("c", 100, 890, 50, 10) >>,
                     << Item("d", 100, 880, 50, 10) >> >>

\* C31 as stated: the lines are in descending y, top to bottom, and within
\* every line the items, whose texts make the line text in that order, are
\* in ascending x.
C31_ReadingOrder ==
  Extracted =>
    /\ \A k \in 1..(Len(calc.lines) - 1) :
         calc.lines[k][1].y >= calc.lines[k + 1][1].y
    /\ \A k \in 1..Len(calc.lines) :
         \A i, j \in 1..Len(calc.lines[k]) :
           i < j => calc.lines[k][i].x <= calc.lines[k][j].x

\* the sum of the y of the items of a list
RECURSIVE SumY(_)
SumY(list) == IF Len(list) = 0 THEN 0 ELSE Head(list).y + SumY(Tail(list))

\* currentY after the items of a line were placed one by one
RECURSIVE currentYOf(_)
currentYOf(line) ==
  IF Len(line) = 1 THEN Whole(line[1].y)
  ELSE nextCurrentY(currentYOf(SubSeq(line, 1, Len(line) - 1)), Len(line),
                    line[Len(line)].y)

\* |y - m| <= pageHeight * 0.012 for m the arithmetic mean of y over a list
NearMean(y, list) ==
  Abs(y * Len(list) - SumY(list)) * 1000 <= PageHeight * 12 * Len(list)

C35_ResultWithinRegions ==
  Picked =>
    /\ \A i \in 1..Len(calc.result[1]) :
         \E k \in 1..Len(PickedRegions) : calc.result[1][i] = PickedRegions[k]
    /\ calc.result[1] = <<>> => Len(PickedRegions) = 0

\* the final events a chat answer has sent
FinalEvents ==
  { i \in 1..Len(search.sent) : search.sent[i].type \in {"done", "error"} }

\* C40: a final event, done or error, is the last event of a chat answer and
\* the only final one; an answer that has ended with the client still
\* connected has one; and a request whose origin is not allowed is answered
\* with the 403 reply and no event.
C40_OneFinalEvent ==
  search.endpoint = "chat" =>
    /\ FinalEvents \subseteq { Len(search.sent) }
    /\ (search.pc = "ended" /\ ~search.closed) => FinalEvents = { Len(search.sent) }
    /\ (search.pc = "ended" /\ ~search.closed) => Len(search.sent) >= 1
    /\ search.ended <=> FinalEvents # {}
    /\ search.pc = "replied" =>
         /\ search.reply = Some([kind |-> "origin_not_allowed", results |-> <<>>])
         /\ search.sent = <<>>
    /\ search.pc = "rejected" => search.sent = <<>>

\* an answer of two tokens and done, the client still connected
C40_Witness ==
  /\ search.endpoint = "chat"
  /\ search.pc = "ended"
  /\ ~search.closed
  /\ Len(search.sent) = 3
  /\ search.sent[1].type = "token"
  /\ search.sent[2].type = "token"
  /\ search.sent[3].type = "done"

\* the rows stored for the document of task t
RowsOf(t, rows) == { row \in rows : row.doc = t }

\* a write of writeDatabase has failed for task t
WriteFailed(t, log) ==
  \E k \in 1..Len(log[t]) : log[t][k].handler = "writeDatabase"

\* C33: a failed write of writeDatabase makes the task failed with the
\* error of that write, every row written before stays stored, and no row is
\* written for the task afterwards.
C33_WriteFailureKeepsRows ==
  [][ /\ db \subseteq db'
      /\ \A t \in 1..Len(tasks') :
           WriteFailed(t, thrown') =>
             /\ tasks'[t].stage = "failed"
             /\ tasks'[t].error = Some(ErrorMessage("writeDatabase"))
             /\ frames'[t].pc \in {"runNextFinally", "done"}
      /\ \A t \in 1..Len(tasks) :
           tasks[t].stage = "failed" => RowsOf(t, db') = RowsOf(t, db) ]_vars

\* a write failed after the document, a page and a text page were stored
C33_Witness ==
  \E t \in Ids :
    /\ WriteFailed(t, thrown)
    /\ tasks[t].stage = "failed"
    /\ Cardinality(RowsOf(t, db)) = 3

\* C34 as stated: the first event published for a task is the queued event,
\* stage queued and progress 0.
C34_QueuedEventFirst ==
  \A t \in Ids :
    Len(events[t]) > 0 =>
      /\ events[t][1].stage = "queued"
      /\ events[t][1].num = 0
      /\ events[t][1].message = "queued"

\* C38: the text embeddings of a task's metadata are one entry per text page,
\* in page order; and after a failed embedding request the task has none.
C38_EmbeddingsAllOrNothing ==
  \A t \in Ids :
    /\ tasks[t].meta.textEmbeddings # None =>
         /\ tasks[t].meta.textPages # None
         /\ Len(tasks[t].meta.textEmbeddings[1]) = Len(tasks[t].meta.textPages[1])
         /\ \A k \in 1..Len(tasks[t].meta.textEmbeddings[1]) :
              tasks[t].meta.textEmbeddings[1][k].pageNumber
                = tasks[t].meta.textPages[1][k].pageNumber
    /\ (\E k \in 1..Len(thrown[t]) : thrown[t][k].handler = "generateTextEmbeddings")
         => tasks[t].meta.textEmbeddings = None

\* the request for the second page failed after the first page was embedded
\* and its progress published
C38_Witness ==
  \E t \in Ids :
    /\ \E k \in 1..Len(thrown[t]) : thrown[t][k].handler = "generateTextEmbeddings"
    /\ \E k \in 1..Len(events[t]) :
         /\ events[t][k].stage = "generating_text_embeddings"
         /\ events[t][k].den = 2
    /\ tasks[t].meta.textEmbeddings = None
    /\ tasks[t].stage = "completed"

\* text extraction gave task t a list of zero pages
ZeroPages(t) ==
  tasks[t].meta.textPages # None /\ Len(tasks[t].meta.textPages[1]) = 0

\* C39: a task whose text extraction gave zero pages goes through the later
\* stages to completed without a failure and without an external call;
\* nothing else is added to its metadata and no row is stored for it.
C39_ZeroPagesNoOp ==
  \A t \in Ids :
    ZeroPages(t) =>
      /\ tasks[t].stage \in {"layout_analysis", "generating_text_embeddings",
                              "writing_database", "completed"}
      /\ frames[t].pc \in {"layoutAnalysis", "generateTextEmbeddings",
                            "writeDatabase", "runNextFinally", "done"}
      /\ frames[t].pc \in {"runNextFinally", "done"} => tasks[t].stage = "completed"
      /\ tasks[t].error = None
      /\ thrown[t] = <<>>
      /\ tasks[t].meta.layoutPages = None
      /\ tasks[t].meta.textEmbeddings = None
      /\ RowsOf(t, db) = {}

\* a task of a document without pages has completed, with the API key set
C39_Witness ==
  \E t \in Ids :
    /\ ZeroPages(t)
    /\ tasks[t].stage = "completed"
    /\ frames[t].pc = "done"
    /\ apiKey

\* no request of the upload is in flight
Quiet == \A r \in 1..MaxRequests : upload.requests[r].pc \in {"idle", "done"}

\* C36 as stated: once the /upload/chunk requests have finished, every chunk
\* index that was answered with ok is in the stored receivedChunks (stated
\* for an upload no /upload/complete request has been made for).
C36_AckedChunksStored ==
  ( /\ Quiet
    /\ \A r \in 1..MaxRequests : upload.requests[r].kind # "complete"
    /\ upload.acked # {} )
  => /\ upload.metadata # None
     /\ \A index \in upload.acked : includes(upload.metadata[1].receivedChunks, index)

\* request r is the /upload/complete request that has read every chunk
\* 0..totalChunks-1 of an upload that has received them all, with a digest
\* equal to the declared hash
Verified(r) ==
  LET req == upload.requests[r]
  IN  /\ req.kind = "complete"
      /\ req.pc = "saveIndex"
      /\ req.metadata # None
      /\ req.metadata[1].receivedChunks
           = [k \in 1..req.metadata[1].totalChunks |-> k - 1]
      /\ Len(req.read) = req.metadata[1].totalChunks
      /\ digestMatches(req.read)

\* C37: a step creates a task or changes the upload index only as the step
\* of an /upload/complete request that found every chunk received and the
\* digest equal to the declared hash, and it does both at once; a request
\* answered with upload_not_found, chunks_incomplete or hash_mismatch has
\* done neither.
C37_CompleteOnlyWhenVerified ==
  [][ /\ (Len(tasks') # Len(tasks) \/ upload'.index # upload.index) =>
           \E r \in 1..MaxRequests :
             /\ Verified(r)
             /\ upload'.requests[r].pc = "cleanup"
             /\ Len(tasks') = Len(tasks) + 1
             /\ upload'.index = upload.index \cup {"hash"}
      /\ \A r \in 1..MaxRequests :
           upload'.requests[r].reply
               \in {"upload_not_found", "chunks_incomplete", "hash_mismatch", "error"}
             => (Len(tasks') = Len(tasks) /\ upload'.index = upload.index) ]_vars

\* every chunk was received and an /upload/complete request has created the
\* task and recorded the hash
C37_Witness ==
  /\ Len(tasks) = 1
  /\ upload.index = {"hash"}
  /\ \E r \in 1..MaxRequests :
       /\ upload.requests[r].kind = "complete"
       /\ upload.requests[r].pc = "cleanup"
       /\ Len(upload.requests[r].read) = MaxChunkCount
       /\ digestMatches(upload.requests[r].read)

====
